---- MODULE Spec2Model ----
(***************************************************************************)
(* Model of the sqlalchemy SQL-Server wrapper:                             *)
(*   connection_functions.py          generate_sql_connection_string,      *)
(*                                    generate_sql_connection              *)
(*   database_object_configuration.py DatabaseConfig                       *)
(*                                                                         *)
(* Strings built by the code are sequences of lexemes: every literal of    *)
(* the source is cut at '=' and ';' and every interpolated argument is one *)
(* lexeme.  Python objects are records with a "type" field.                *)
(***************************************************************************)
EXTENDS Integers, Sequences, FiniteSets, TLC

VARIABLES
    conn,       \* the last call of a connection function: arguments and result
    db,         \* the live database the engine talks to (schemas, tables, views)
    self,       \* the DatabaseConfig instance: attribute name -> value
    call,       \* the last set_table / set_view call: arguments and result
    engine0,    \* history: the engine handle __init__ stored
    bound,      \* history: per attribute name, what the last successful call returned
    created,    \* history: per schema, how often MetaData(schema=...) was constructed
    ncalls      \* history: how many set_table / set_view calls were made

vars == <<conn, db, self, call, engine0, bound, created, ncalls>>

\* Python's None, as an argument value
None == "<None>"

(***************************************************************************)
(* Input domains                                                           *)
(***************************************************************************)
Servers   == {"srv1", "srv2"}
Databases == {"db1"}
Uids      == {None, "u1"}
Pwds      == {None, "p1"}
\* the three tags the factory recognises, and two it does not
KnownDrivers == {"sqlalchemy", "pyodbc", "pymssql"}
Drivers      == KnownDrivers \cup {"psycopg2", ""}
\* which of the optional backend libraries can be imported
Installs     == SUBSET KnownDrivers

(***************************************************************************)
(* connection_functions.generate_sql_connection_string                     *)
(***************************************************************************)
Returned(v) == [raised |-> "None", value |-> v]
Raised(e)   == [raised |-> e, value |-> <<>>]

Prefix(server, database) ==
    <<"DRIVER", "=", "{SQL Server}", ";",
      "SERVER", "=", server, ";",
      "DATABASE", "=", database, ";">>

\* mutant: the password-without-user check is missing
generate_sql_connection_string_no_uid_check(server, database, uid, pwd) ==
    IF pwd = None
    THEN IF uid = None
         THEN Returned(Prefix(server, database)
                       \o <<"UID", "=", ";", "Trusted_Connection", "=", "Yes">>)
         ELSE Returned(Prefix(server, database)
                       \o <<"UID", "=", uid, ";", "Trusted_Connection", "=", "Yes">>)
    ELSE Returned(Prefix(server, database)
                  \o <<"UID", "=", uid, ";", "PWD", "=", pwd>>)

generate_sql_connection_string(server, database, uid, pwd) ==
    IF pwd = None
    THEN IF uid = None
         THEN Returned(Prefix(server, database)
                       \o <<"UID", "=", ";", "Trusted_Connection", "=", "Yes">>)
         ELSE Returned(Prefix(server, database)
                       \o <<"UID", "=", uid, ";", "Trusted_Connection", "=", "Yes">>)
    ELSE IF uid = None
         THEN Raised("ConnectionStringParsingError")
         ELSE Returned(Prefix(server, database)
                       \o <<"UID", "=", uid, ";", "PWD", "=", pwd>>)

(***************************************************************************)
(* connection_functions.generate_sql_connection                            *)
(***************************************************************************)
\* urllib.parse.quote_plus, lexeme by lexeme
quote_plus_lexeme(x) ==
    CASE x = ";"            -> "%3B"
      [] x = "="            -> "%3D"
      [] x = "{SQL Server}" -> "%7BSQL+Server%7D"
      [] OTHER              -> x

quote_plus(s) == [i \in DOMAIN s |-> quote_plus_lexeme(s[i])]

NoConnection == [type |-> "None"]

\* result of the factory: what was raised, its message, the object returned
\* and the backend calls that opened a connection
Outcome(raised, message, value, opened) ==
    [raised |-> raised, message |-> message, value |-> value, opened |-> opened]

Fail(raised, message) == Outcome(raised, message, NoConnection, <<>>)

Open(api, value) == Outcome("None", <<>>, value, <<[api |-> api, value |-> value]>>)

UnknownDriverMessage(driver) ==
    <<"Unknown database connection driver: ", driver,
      "Options are: ", "sqlalchemy", ", ", "pyodbc", ", ", "pymssql">>

\* mutant: an unrecognised tag falls through to the default backend
Dispatch_default_backend(server, database, uid, pwd, driver, installed, connection_string) ==
    IF driver = "sqlalchemy"
    THEN IF "sqlalchemy" \notin installed
         THEN Fail("ImportError",
                   <<"Must have sqlalchemy installed to use sqlalchemy driver">>)
         ELSE Open("sqlalchemy.create_engine",
                   [type |-> "Engine",
                    url  |-> <<"mssql+pyodbc:///?odbc_connect=">>
                             \o quote_plus(connection_string)])
    ELSE IF driver = "pyodbc"
    THEN IF "pyodbc" \notin installed
         THEN Fail("ImportError",
                   <<"Must have pyodbc installed to use pyodbc driver">>)
         ELSE Open("pyodbc.connect",
                   [type |-> "pyodbc.Connection", args |-> connection_string])
    ELSE IF driver = "pymssql"
    THEN IF "pymssql" \notin installed
         THEN Fail("ImportError",
                   <<"Must have pymssql installed to use pymssql driver">>)
         ELSE IF uid = None \/ pwd = None
              THEN Open("pymssql.connect",
                        [type |-> "pymssql.Connection",
                         kwargs |-> [server |-> server, database |-> database]])
              ELSE Open("pymssql.connect",
                        [type |-> "pymssql.Connection",
                         kwargs |-> [server |-> server, database |-> database,
                                     user |-> uid, password |-> pwd]])
    ELSE Open("sqlalchemy.create_engine",
              [type |-> "Engine",
               url  |-> <<"mssql+pyodbc:///?odbc_connect=">>
                        \o quote_plus(connection_string)])

\* mutant: the integrated path only when both credentials are absent
Dispatch_integrated_needs_both_absent(server, database, uid, pwd, driver, installed, connection_string) ==
    IF driver = "sqlalchemy"
    THEN IF "sqlalchemy" \notin installed
         THEN Fail("ImportError",
                   <<"Must have sqlalchemy installed to use sqlalchemy driver">>)
         ELSE Open("sqlalchemy.create_engine",
                   [type |-> "Engine",
                    url  |-> <<"mssql+pyodbc:///?odbc_connect=">>
                             \o quote_plus(connection_string)])
    ELSE IF driver = "pyodbc"
    THEN IF "pyodbc" \notin installed
         THEN Fail("ImportError",
                   <<"Must have pyodbc installed to use pyodbc driver">>)
         ELSE Open("pyodbc.connect",
                   [type |-> "pyodbc.Connection", args |-> connection_string])
    ELSE IF driver = "pymssql"
    THEN IF "pymssql" \notin installed
         THEN Fail("ImportError",
                   <<"Must have pymssql installed to use pymssql driver">>)
         ELSE IF uid = None /\ pwd = None
              THEN Open("pymssql.connect",
                        [type |-> "pymssql.Connection",
                         kwargs |-> [server |-> server, database |-> database]])
              ELSE Open("pymssql.connect",
                        [type |-> "pymssql.Connection",
                         kwargs |-> [server |-> server, database |-> database,
                                     user |-> uid, password |-> pwd]])
    ELSE Fail("UnknownDatabaseDriverError", UnknownDriverMessage(driver))

Dispatch(server, database, uid, pwd, driver, installed, connection_string) ==
    IF driver = "sqlalchemy"
    THEN IF "sqlalchemy" \notin installed
         THEN Fail("ImportError",
                   <<"Must have sqlalchemy installed to use sqlalchemy driver">>)
         ELSE Open("sqlalchemy.create_engine",
                   [type |-> "Engine",
                    url  |-> <<"mssql+pyodbc:///?odbc_connect=">>
                             \o quote_plus(connection_string)])
    ELSE IF driver = "pyodbc"
    THEN IF "pyodbc" \notin installed
         THEN Fail("ImportError",
                   <<"Must have pyodbc installed to use pyodbc driver">>)
         ELSE Open("pyodbc.connect",
                   [type |-> "pyodbc.Connection", args |-> connection_string])
    ELSE IF driver = "pymssql"
    THEN IF "pymssql" \notin installed
         THEN Fail("ImportError",
                   <<"Must have pymssql installed to use pymssql driver">>)
         ELSE IF uid = None \/ pwd = None
              THEN Open("pymssql.connect",
                        [type |-> "pymssql.Connection",
                         kwargs |-> [server |-> server, database |-> database]])
              ELSE Open("pymssql.connect",
                        [type |-> "pymssql.Connection",
                         kwargs |-> [server |-> server, database |-> database,
                                     user |-> uid, password |-> pwd]])
    ELSE Fail("UnknownDatabaseDriverError", UnknownDriverMessage(driver))

generate_sql_connection(server, database, uid, pwd, driver, installed) ==
    LET cs == generate_sql_connection_string(server, database, uid, pwd)
    IN  IF cs.raised # "None"
        THEN Fail(cs.raised, <<>>)
        ELSE Dispatch(server, database, uid, pwd, driver, installed, cs.value)

(***************************************************************************)
(* The live database behind the engine                                     *)
(***************************************************************************)
Schemas   == {"dbo", "x"}
Relations == {"a"}
Kinds     == {"none", "table", "view"}

\* sqlalchemy.inspect(engine).get_schema_names()
get_schema_names(d) == d.schemas

\* sqlalchemy.inspect(engine).get_table_names(schema)
get_table_names(d, schema) == {n \in Relations : d.kind[<<schema, n>>] = "table"}

\* sqlalchemy.inspect(engine).get_view_names(schema)
get_view_names(d, schema) == {n \in Relations : d.kind[<<schema, n>>] = "view"}

(***************************************************************************)
(* DatabaseConfig: the instance is its attribute namespace                 *)
(***************************************************************************)
\* names a bind call can be asked to use as the attribute name
\* (None: the default), and the names the instance holds at all
Aliases       == {"h"}
ReservedNames == {"engine", "metadata_dict", "set_view"}
InstanceNames == Relations \cup Aliases \cup ReservedNames
AttrNameArgs  == {None} \cup Aliases \cup ReservedNames

Unset    == [type |-> "unset"]
Method   == [type |-> "method"]
NoValue  == [type |-> "None"]
MetaData(schema) == [type |-> "MetaData", schema |-> schema]
\* metadata_dict: every key k maps to the MetaData(schema=k) stored under it
Dict(keys)       == [type |-> "dict", keys |-> keys]
GetItem(dict, k) == MetaData(k)
\* sqlalchemy.Table(name, metadata, autoload_with=engine)
Table(name, metadata) == [type |-> "Table", name |-> name, metadata |-> metadata]

Query(api, engine, schema) == [api |-> api, engine |-> engine, schema |-> schema]

\* what a method leaves behind: the instance, the exception (or "None"), the
\* returned object, the driver calls it made and the MetaData it constructed
Result(s, raised, value, queries, constructed) ==
    [self |-> s, raised |-> raised, value |-> value,
     queries |-> queries, constructed |-> constructed]

\* a name list returned by the inspector, or the exception of asking a
\* non-engine for one
Listing(s, api, schema, names) ==
    IF s["engine"].type = "Engine"
    THEN [raised |-> "None", names |-> names,
          queries |-> <<Query(api, s["engine"], schema)>>]
    ELSE [raised |-> "AttributeError", names |-> {}, queries |-> <<>>]

_list_schema_from_engine(s, d) ==
    Listing(s, "get_schema_names", None, get_schema_names(d))

_list_tables_from_engine(s, d, schema) ==
    Listing(s, "get_table_names", schema, get_table_names(d, schema))

_list_views_from_engine(s, d, schema) ==
    Listing(s, "get_view_names", schema, get_view_names(d, schema))

\* mutant: the schema is cached only once the relation was found
Reflect_cache_on_success(s, d, name, schema, kind, missing) ==
    LET ls == _list_schema_from_engine(s, d)
    IN  IF ls.raised # "None"
        THEN Result(s, ls.raised, NoValue, ls.queries, {})
        ELSE IF schema \notin ls.names
        THEN Result(s, "MissingSchemaError", NoValue, ls.queries, {})
        ELSE IF s["metadata_dict"].type # "dict"
        THEN Result(s, "TypeError", NoValue, ls.queries, {})
        ELSE LET fresh == schema \notin s["metadata_dict"].keys
                 s1 == IF fresh
                       THEN [s EXCEPT !["metadata_dict"] =
                                Dict(s["metadata_dict"].keys \cup {schema})]
                       ELSE s
                 made == IF fresh THEN {schema} ELSE {}
                 lr == IF kind = "table"
                       THEN _list_tables_from_engine(s1, d, schema)
                       ELSE _list_views_from_engine(s1, d, schema)
                 qs == ls.queries \o lr.queries
             IN  IF lr.raised # "None"
                 THEN Result(s1, lr.raised, NoValue, qs, made)
                 ELSE IF name \notin lr.names
                 THEN Result(s, missing, NoValue, qs, {})
                 ELSE Result(s1, "None",
                             Table(name, GetItem(s1["metadata_dict"], schema)),
                             qs \o <<Query("autoload", s1["engine"], schema)>>,
                             made)

\* the common body of _reflect_table and _reflect_view: kind selects the name
\* list that is asked for, missing is the error for a name not in it
Reflect(s, d, name, schema, kind, missing) ==
    LET ls == _list_schema_from_engine(s, d)
    IN  IF ls.raised # "None"
        THEN Result(s, ls.raised, NoValue, ls.queries, {})
        ELSE IF schema \notin ls.names
        THEN Result(s, "MissingSchemaError", NoValue, ls.queries, {})
        ELSE IF s["metadata_dict"].type # "dict"
        THEN Result(s, "TypeError", NoValue, ls.queries, {})
        ELSE LET fresh == schema \notin s["metadata_dict"].keys
                 s1 == IF fresh
                       THEN [s EXCEPT !["metadata_dict"] =
                                Dict(s["metadata_dict"].keys \cup {schema})]
                       ELSE s
                 made == IF fresh THEN {schema} ELSE {}
                 lr == IF kind = "table"
                       THEN _list_tables_from_engine(s1, d, schema)
                       ELSE _list_views_from_engine(s1, d, schema)
                 qs == ls.queries \o lr.queries
             IN  IF lr.raised # "None"
                 THEN Result(s1, lr.raised, NoValue, qs, made)
                 ELSE IF name \notin lr.names
                 THEN Result(s1, missing, NoValue, qs, made)
                 ELSE Result(s1, "None",
                             Table(name, GetItem(s1["metadata_dict"], schema)),
                             qs \o <<Query("autoload", s1["engine"], schema)>>,
                             made)

_reflect_table(s, d, table, schema) ==
    Reflect(s, d, table, schema, "table", "MissingTableError")

_reflect_view(s, d, view, schema) ==
    Reflect(s, d, view, schema, "view", "MissingViewError")

\* setattr(self, attr_name, value) after a reflection that returned
Bind(r, attr_name) ==
    IF r.raised # "None"
    THEN r
    ELSE [r EXCEPT !.self = [r.self EXCEPT ![attr_name] = r.value]]

\* mutant: the attribute name given by the caller is ignored
set_table_ignores_attr_name(s, d, table, attr_name, schema) ==
    Bind(_reflect_table(s, d, table, schema), table)

set_table(s, d, table, attr_name, schema) ==
    LET attr == IF attr_name = None THEN table ELSE attr_name
    IN  Bind(_reflect_table(s, d, table, schema), attr)

set_view(s, d, view, attr_name, schema) ==
    IF s["set_view"].type # "method"
    THEN Result(s, "TypeError", NoValue, <<>>, {})
    ELSE LET attr == IF attr_name = None THEN view ELSE attr_name
         IN  Bind(_reflect_view(s, d, view, schema), attr)

\* DatabaseConfig.__init__ and _create_engine, given that construction returned
__init__(server, database, uid, pwd) ==
    [n \in InstanceNames |->
        CASE n = "engine" ->
                generate_sql_connection(server, database, uid, pwd,
                                        "sqlalchemy", {"sqlalchemy"}).value
          [] n = "metadata_dict" -> Dict({})
          [] n = "set_view" -> Method
          [] OTHER -> Unset]

(***************************************************************************)
(* State machine                                                           *)
(***************************************************************************)
MaxCalls == 3

NoCall == [op |-> "None", name |-> None, attr_name |-> None, schema |-> None,
           raised |-> "None", value |-> NoValue, replaced |-> NoValue,
           queries |-> <<>>]

NoConn == [fn |-> "None", args |-> <<>>, installed |-> {},
           raised |-> "None", message |-> <<>>, string |-> <<>>,
           value |-> NoConnection, opened |-> <<>>]

EmptyDb == [schemas |-> {"dbo"},
            kind |-> [p \in Schemas \X Relations |-> "none"]]

\* the instance right after a construction that returned, on an empty database
Constructed ==
    /\ \E uid \in Uids, pwd \in Pwds :
          /\ generate_sql_connection("srv1", "db1", uid, pwd,
                                     "sqlalchemy", {"sqlalchemy"}).raised = "None"
          /\ self = __init__("srv1", "db1", uid, pwd)
    /\ engine0 = self["engine"]
    /\ db = EmptyDb
    /\ call = NoCall
    /\ bound = [n \in InstanceNames |-> Unset]
    /\ created = [s \in Schemas |-> 0]
    /\ ncalls = 0

Init == Constructed /\ conn = NoConn

\* one whole bind call: r is what set_table / set_view left behind
Called(op, name, attr_name, schema, r) ==
    /\ ncalls < MaxCalls
    /\ ncalls' = ncalls + 1
    /\ self' = r.self
    /\ call' = [op |-> op, name |-> name, attr_name |-> attr_name,
                schema |-> schema, raised |-> r.raised, value |-> r.value,
                replaced |-> IF r.raised = "None"
                             THEN self[IF attr_name = None THEN name ELSE attr_name]
                             ELSE NoValue,
                queries |-> r.queries]
    /\ bound' = IF r.raised = "None"
                THEN [bound EXCEPT ![IF attr_name = None THEN name ELSE attr_name]
                                        = r.value]
                ELSE bound
    /\ created' = [s \in Schemas |->
                      created[s] + (IF s \in r.constructed THEN 1 ELSE 0)]
    /\ UNCHANGED <<conn, db, engine0>>

SetTable(table, attr_name, schema) ==
    Called("set_table", table, attr_name, schema,
           set_table(self, db, table, attr_name, schema))

SetView(view, attr_name, schema) ==
    Called("set_view", view, attr_name, schema,
           set_view(self, db, view, attr_name, schema))

\* the database changes under the engine
Empty(schema) == \A n \in Relations : db.kind[<<schema, n>>] = "none"

CreateSchema(schema) ==
    /\ schema \notin db.schemas
    /\ db' = [db EXCEPT !.schemas = @ \cup {schema}]
    /\ UNCHANGED <<conn, self, call, engine0, bound, created, ncalls>>

DropSchema(schema) ==
    /\ schema \in db.schemas
    /\ Empty(schema)
    /\ db' = [db EXCEPT !.schemas = @ \ {schema}]
    /\ UNCHANGED <<conn, self, call, engine0, bound, created, ncalls>>

CreateRelation(schema, name, kind) ==
    /\ schema \in db.schemas
    /\ db.kind[<<schema, name>>] = "none"
    /\ db' = [db EXCEPT !.kind[<<schema, name>>] = kind]
    /\ UNCHANGED <<conn, self, call, engine0, bound, created, ncalls>>

DropRelation(schema, name) ==
    /\ db.kind[<<schema, name>>] # "none"
    /\ db' = [db EXCEPT !.kind[<<schema, name>>] = "none"]
    /\ UNCHANGED <<conn, self, call, engine0, bound, created, ncalls>>

Next ==
    \/ \E t \in Relations, a \in AttrNameArgs, s \in Schemas : SetTable(t, a, s)
    \/ \E v \in Relations, a \in AttrNameArgs, s \in Schemas : SetView(v, a, s)
    \/ \E s \in Schemas : CreateSchema(s)
    \/ \E s \in Schemas : DropSchema(s)
    \/ \E s \in Schemas, n \in Relations : CreateRelation(s, n, "table")
    \/ \E s \in Schemas, n \in Relations : CreateRelation(s, n, "view")
    \/ \E s \in Schemas, n \in Relations : DropRelation(s, n)

Spec == Init /\ [][Next]_vars

(***************************************************************************)
(* The connection functions called on their own                            *)
(***************************************************************************)
GenerateSqlConnectionString(server, database, uid, pwd) ==
    LET r == generate_sql_connection_string(server, database, uid, pwd)
    IN  /\ conn' = [fn |-> "generate_sql_connection_string",
                    args |-> <<server, database, uid, pwd, None>>,
                    installed |-> {},
                    raised |-> r.raised, message |-> <<>>, string |-> r.value,
                    value |-> NoConnection, opened |-> <<>>]
        /\ UNCHANGED <<db, self, call, engine0, bound, created, ncalls>>

GenerateSqlConnection(server, database, uid, pwd, driver, installed) ==
    LET r == generate_sql_connection(server, database, uid, pwd, driver, installed)
    IN  /\ conn' = [fn |-> "generate_sql_connection",
                    args |-> <<server, database, uid, pwd, driver>>,
                    installed |-> installed,
                    raised |-> r.raised, message |-> r.message, string |-> <<>>,
                    value |-> r.value, opened |-> r.opened]
        /\ UNCHANGED <<db, self, call, engine0, bound, created, ncalls>>

NextConn ==
    \/ \E server \in Servers, database \in Databases, uid \in Uids, pwd \in Pwds :
          GenerateSqlConnectionString(server, database, uid, pwd)
    \/ \E server \in Servers, database \in Databases, uid \in Uids, pwd \in Pwds,
          driver \in Drivers, installed \in Installs :
          GenerateSqlConnection(server, database, uid, pwd, driver, installed)

SpecConn == Init /\ [][NextConn]_vars


(***************************************************************************)
(* Reading a connection string back: the fields between the ';'            *)
(***************************************************************************)
FirstSemicolon(s) ==
    IF \E i \in DOMAIN s : s[i] = ";"
    THEN CHOOSE i \in DOMAIN s : s[i] = ";" /\ \A j \in 1..(i - 1) : s[j] # ";"
    ELSE Len(s) + 1

Field(seg) ==
    IF Len(seg) = 3 /\ seg[2] = "=" THEN <<seg[1], seg[3]>>
    ELSE IF Len(seg) = 2 /\ seg[2] = "=" THEN <<seg[1], "">>
    ELSE <<"?", "?">>

RECURSIVE Fields(_)
Fields(s) ==
    IF s = <<>>
    THEN <<>>
    ELSE LET k == FirstSemicolon(s)
         IN  <<Field(SubSeq(s, 1, k - 1))>> \o Fields(SubSeq(s, k + 1, Len(s)))

HasField(s, key, v) == \E i \in DOMAIN Fields(s) : Fields(s)[i] = <<key, v>>
HasKey(s, key)      == \E i \in DOMAIN Fields(s) : Fields(s)[i][1] = key

\* the arguments of the last connection-function call
Server   == conn.args[1]
Database == conn.args[2]
Uid      == conn.args[3]
Pwd      == conn.args[4]
Driver   == conn.args[5]

(***************************************************************************)
(* C1: generate_sql_connection_string agrees with the four-case reference: *)
(* no pwd, no uid -> trusted connection with an empty UID field; no pwd,   *)
(* uid -> trusted connection carrying the uid; pwd, no uid -> fails with   *)
(* ConnectionStringParsingError and returns no string; both -> UID=uid and *)
(* PWD=pwd and no Trusted_Connection field.  Only pwd-without-uid fails.   *)
(***************************************************************************)
C1_FourCases ==
    conn.fn = "generate_sql_connection_string" =>
        LET s == conn.string
            target == /\ Fields(s)[1] = <<"DRIVER", "{SQL Server}">>
                      /\ Fields(s)[2] = <<"SERVER", Server>>
                      /\ Fields(s)[3] = <<"DATABASE", Database>>
        IN  /\ (Pwd = None /\ Uid = None) =>
                  /\ conn.raised = "None"
                  /\ Len(Fields(s)) = 5 /\ target
                  /\ HasField(s, "UID", "")
                  /\ HasField(s, "Trusted_Connection", "Yes")
                  /\ ~HasKey(s, "PWD")
            /\ (Pwd = None /\ Uid # None) =>
                  /\ conn.raised = "None"
                  /\ Len(Fields(s)) = 5 /\ target
                  /\ HasField(s, "UID", Uid)
                  /\ HasField(s, "Trusted_Connection", "Yes")
                  /\ ~HasKey(s, "PWD")
            /\ (Pwd # None /\ Uid = None) =>
                  /\ conn.raised = "ConnectionStringParsingError"
                  /\ s = <<>>
            /\ (Pwd # None /\ Uid # None) =>
                  /\ conn.raised = "None"
                  /\ Len(Fields(s)) = 5 /\ target
                  /\ HasField(s, "UID", Uid)
                  /\ HasField(s, "PWD", Pwd)
                  /\ ~HasKey(s, "Trusted_Connection")
            /\ (conn.raised # "None") <=> (Pwd # None /\ Uid = None)

\* the builder was called with a password and no user id, and failed
C1_Witness ==
    /\ conn.fn = "generate_sql_connection_string"
    /\ Pwd = "p1" /\ Uid = None
    /\ conn.raised = "ConnectionStringParsingError"

(***************************************************************************)
(* C5                                                                      *)
(***************************************************************************)
ListsTheThreeTags(message) ==
    \A tag \in KnownDrivers : \E i \in DOMAIN message : message[i] = tag

UnknownDriverCall ==
    conn.fn = "generate_sql_connection" /\ Driver \notin KnownDrivers

\* C5 as stated: every generate_sql_connection call with an unrecognised
\* driver tag, whatever uid and pwd are, fails with UnknownDatabaseDriverError
\* whose message lists the three valid tags, and opens no backend connection.
C5_AsStated ==
    UnknownDriverCall =>
        /\ conn.raised = "UnknownDatabaseDriverError"
        /\ ListsTheThreeTags(conn.message)
        /\ conn.opened = <<>>

\* C5, amended: a generate_sql_connection call with an unrecognised driver
\* tag opens no backend connection and returns nothing; it fails with
\* ConnectionStringParsingError when pwd is set and uid is absent, and with
\* UnknownDatabaseDriverError, its message listing the three valid tags, for
\* every other combination of uid and pwd.
C5_Amended ==
    UnknownDriverCall =>
        /\ conn.opened = <<>>
        /\ conn.value = NoConnection
        /\ IF Pwd # None /\ Uid = None
           THEN conn.raised = "ConnectionStringParsingError"
           ELSE /\ conn.raised = "UnknownDatabaseDriverError"
                /\ ListsTheThreeTags(conn.message)

\* an unrecognised tag with both credentials set was refused as unknown
C5_Witness ==
    /\ UnknownDriverCall
    /\ Uid = "u1" /\ Pwd = "p1"
    /\ conn.raised = "UnknownDatabaseDriverError"

(***************************************************************************)
(* C8                                                                      *)
(***************************************************************************)
PymssqlCall ==
    /\ conn.fn = "generate_sql_connection"
    /\ Driver = "pymssql"
    /\ "pymssql" \in conn.installed

IntegratedAuth ==
    /\ conn.raised = "None"
    /\ conn.opened = <<[api |-> "pymssql.connect", value |-> conn.value]>>
    /\ conn.value = [type |-> "pymssql.Connection",
                     kwargs |-> [server |-> Server, database |-> Database]]

\* C8 as stated: with driver tag pymssql (the library importable), every call
\* in which uid is absent or pwd is absent, pwd set with uid absent included,
\* opens the connection with server and database only and does not fail.
C8_AsStated ==
    (PymssqlCall /\ (Uid = None \/ Pwd = None)) => IntegratedAuth

\* C8, amended: with driver tag pymssql (the library importable), every call
\* in which pwd is absent takes the integrated-auth path, opening the
\* connection with server and database only; a call with pwd set and uid
\* absent fails with ConnectionStringParsingError and opens no connection.
C8_Amended ==
    /\ (PymssqlCall /\ Pwd = None) => IntegratedAuth
    /\ (PymssqlCall /\ Pwd # None /\ Uid = None) =>
          /\ conn.raised = "ConnectionStringParsingError"
          /\ conn.opened = <<>>
          /\ conn.value = NoConnection

\* pymssql was asked for with a user id and no password, and connected
C8_Witness ==
    /\ PymssqlCall
    /\ Uid = "u1" /\ Pwd = None
    /\ conn.raised = "None"
    /\ conn.value.type = "pymssql.Connection"

(***************************************************************************)
(* Bind calls: a step is a call when it counts one; the primed call record *)
(* is that call, the unprimed db and self are what it ran against.         *)
(***************************************************************************)
CallStep == ncalls' = ncalls + 1

MissingErrors == {"MissingSchemaError", "MissingTableError", "MissingViewError"}

NameQueries == {"get_table_names", "get_view_names"}

\* the name list the call's relation kind is looked up in
NamesOfKind(d, op, schema) ==
    IF op = "set_table" THEN get_table_names(d, schema)
                        ELSE get_view_names(d, schema)

MissingOfKind(op) ==
    IF op = "set_table" THEN "MissingTableError" ELSE "MissingViewError"

\* the attributes __init__ and the class set are what construction left
Intact(s) ==
    /\ s["engine"].type = "Engine"
    /\ s["metadata_dict"].type = "dict"
    /\ s["set_view"] = Method

(***************************************************************************)
(* C2: every set_table / set_view call whose schema is not in the          *)
(* database's schema list fails with MissingSchemaError, and the schema    *)
(* list query is the only introspection query of the call.                 *)
(***************************************************************************)
C2_AsStated ==
    [][(CallStep /\ call'.schema \notin get_schema_names(db)) =>
          /\ call'.raised = "MissingSchemaError"
          /\ Len(call'.queries) = 1
          /\ call'.queries[1].api = "get_schema_names"
          /\ \A i \in DOMAIN call'.queries : call'.queries[i].api \notin NameQueries]_vars

(***************************************************************************)
(* C3: every set_table call whose schema is in the schema list and whose   *)
(* table name is not in that schema's table list fails with                *)
(* MissingTableError, and every such set_view call with MissingViewError;  *)
(* a name that exists only as the other kind of relation is such a name.   *)
(***************************************************************************)
C3_AsStated ==
    [][(/\ CallStep
        /\ call'.schema \in get_schema_names(db)
        /\ call'.name \notin NamesOfKind(db, call'.op, call'.schema)) =>
          call'.raised = MissingOfKind(call'.op)]_vars

(***************************************************************************)
(* C4: after any sequence of bind calls every attribute name that a        *)
(* successful call used (the explicit attr_name, or the relation name when *)
(* it was omitted) refers to what the last such call returned, and every   *)
(* other name to what construction left there.                             *)
(***************************************************************************)
C4_LastBindingWins ==
    \A n \in InstanceNames :
        IF bound[n] # Unset
        THEN self[n] = bound[n]
        ELSE \/ self[n] = __init__("srv1", "db1", None, None)[n]
             \/ n = "engine" /\ self[n] = engine0
             \/ n = "metadata_dict" /\ self[n].type = "dict"

\* a successful call replaced a descriptor bound earlier from another schema
C4_Witness ==
    /\ call.raised = "None"
    /\ call.attr_name = "h"
    /\ call.replaced.type = "Table"
    /\ call.replaced # call.value
    /\ self["h"] = call.value
    /\ call.value.metadata.schema = "x"

C7_AsStated ==
    [][/\ (ncalls = 0 => self["metadata_dict"] = Dict({}))
       /\ self'["metadata_dict"].type = "dict"
       /\ self["metadata_dict"].keys \subseteq self'["metadata_dict"].keys
       /\ \A s \in Schemas : created'[s] <= 1
       /\ (CallStep /\ call'.schema \in get_schema_names(db)) =>
             call'.schema \in self'["metadata_dict"].keys]_vars

(***************************************************************************)
(* C9: the outcome of every bind call is decided by the database's schema  *)
(* list and the schema's table / view list as they are when the call is    *)
(* made, never by an earlier call.                                         *)
(***************************************************************************)
OutcomeFromDatabase(d, op, name, schema) ==
    IF schema \notin get_schema_names(d) THEN "MissingSchemaError"
    ELSE IF name \notin NamesOfKind(d, op, schema) THEN MissingOfKind(op)
    ELSE "None"

C9_AsStated ==
    [][CallStep =>
          call'.raised = OutcomeFromDatabase(db, call'.op, call'.name, call'.schema)]_vars

(***************************************************************************)
(* C10: a bind call that fails with MissingSchemaError, MissingTableError  *)
(* or MissingViewError binds nothing and leaves every attribute and the    *)
(* engine handle as they were; only the metadata cache may change: not at  *)
(* all on MissingSchemaError, and by exactly the entry of the call's       *)
(* schema, if it was not cached yet, on the other two.                     *)
(***************************************************************************)
C10_FailedCallFrame ==
    [][(CallStep /\ call'.raised \in MissingErrors) =>
          /\ \A n \in InstanceNames \ {"metadata_dict"} : self'[n] = self[n]
          /\ bound' = bound
          /\ IF call'.raised = "MissingSchemaError"
             THEN self'["metadata_dict"] = self["metadata_dict"]
             ELSE self'["metadata_dict"] =
                     Dict(self["metadata_dict"].keys \cup {call'.schema})]_vars

\* a first call failed on the relation name: nothing is bound, and the
\* schema it named is in the cache
C10_Witness ==
    /\ ncalls = 1
    /\ call.raised = "MissingTableError"
    /\ call.schema = "x"
    /\ self["metadata_dict"] = Dict({"x"})
    /\ \A n \in Relations \cup Aliases : self[n] = Unset

(***************************************************************************)
(* What C2, C3, C6, C7 and C9 say does hold of every call made while the   *)
(* attributes set by construction have not been bound over.                *)
(***************************************************************************)
WhileIntact ==
    [][(CallStep /\ Intact(self)) =>
          /\ call'.raised = OutcomeFromDatabase(db, call'.op, call'.name, call'.schema)
          /\ call'.raised = "MissingSchemaError" => Len(call'.queries) = 1
          /\ \A i \in DOMAIN call'.queries : call'.queries[i].engine = engine0
          /\ \/ self'["metadata_dict"] = call'.value
             \/ self["metadata_dict"].keys \subseteq self'["metadata_dict"].keys
          /\ \A s \in Schemas : created'[s] <= 1]_vars

====
